---- MODULE Spec2Model ----
(***************************************************************************)
(* Model of the election-data harvester: allstate.py (impl = "v1", the     *)
(* multi-page part fetcher without a session) and v2.py (impl = "v2", the  *)
(* single-page part fetcher with a session and a one-shot 429 retry).      *)
(*                                                                         *)
(* Conventions.  A text is a sequence of one-character strings; a path is  *)
(* a sequence of path components, each component a text (literal file and  *)
(* directory names are one-fragment texts).  A Python dict is a record; a  *)
(* key that the dict lacks is a field that the record lacks.  A function   *)
(* result is None, List(v) or KeyError (an exception that no except clause *)
(* of the program catches).  requests.exceptions.JSONDecodeError is a      *)
(* RequestException (requests >= 2.27, the version v2.py names it from).   *)
(***************************************************************************)
EXTENDS Integers, Sequences, FiniteSets, TLC

VARIABLES impl, state_cd, server, pc, outcome, session,
          states, districts, assemblies, parts,
          di, ai, acc, page_number,
          callLog, reqLog, lastResp, fs, got,
          input_name, sanitized

vars == <<impl, state_cd, server, pc, outcome, session, states, districts,
          assemblies, parts, di, ai, acc, page_number, callLog, reqLog,
          lastResp, fs, got, input_name, sanitized>>

(***************************************************************************)
(* Program constants and model bounds.                                     *)
(***************************************************************************)
PARTS_PAGE_SIZE == 10

DATA_DIR == <<"data">>

\* the server returns a full page only for page numbers below MaxFullPages
MaxFullPages == 1

\* length of the short (last) page the server can return
ShortLen == 3

\* number of os.makedirs / open calls that may raise in one run
MaxFsFaults == 1

\* length of the longest name given to sanitize_filename on its own
MaxNameLen == 3

(***************************************************************************)
(* Values.                                                                 *)
(***************************************************************************)
None == [tag |-> "None"]

KeyError == [tag |-> "KeyError"]

List(v) == [tag |-> "list", val |-> v]

IsList(r) == r.tag = "list"

\* Python's [f(x) for x in s if p(x)] and s1 + s2 over several lists
RECURSIVE Concat(_)
Concat(ss) == IF ss = <<>> THEN <<>> ELSE Head(ss) \o Concat(Tail(ss))

HasKeys(r, ks) == ks \subseteq DOMAIN r

\* dict.get(k) is truthy, for a text-valued key
TruthyText(r, k) == k \in DOMAIN r /\ r[k] # <<>>

\* dict.get(k) is truthy, for a number-valued key
TruthyNum(r, k) == k \in DOMAIN r /\ r[k] # 0

\* the test written as x.get("isActive") != "N"
IsActive_notN(r) == "isActive" \notin DOMAIN r \/ r.isActive # "N"

\* x.get("isActive") == "Y"
IsActive(r) == "isActive" \in DOMAIN r /\ r.isActive = "Y"

(***************************************************************************)
(* sanitize_filename: name.replace(' ', '').replace('.', '') followed by   *)
(* re.sub(r'[^a-zA-Z0-9]', '', ...).                                       *)
(***************************************************************************)
AsciiLetters == {"A", "B", "C", "T", "S", "a", "b", "z"}

AsciiDigits == {"0", "1", "9"}

OtherChars == {" ", ".", "-", "_", "/", "é"}

replace(s, old) == SelectSeq(s, LAMBDA c : c # old)

\* the substitution written as re.sub(r'[^a-zA-Z0-9]', '', s, count=1)
re_sub_count1(s) ==
    LET bad == {i \in 1..Len(s) : s[i] \notin AsciiLetters \cup AsciiDigits}
        k == CHOOSE i \in bad : \A j \in bad : i <= j
    IN  IF bad = {} THEN s ELSE SubSeq(s, 1, k - 1) \o SubSeq(s, k + 1, Len(s))

\* the substitution written as re.sub(r'\W', '', s, flags=re.ASCII)
re_sub_non_word(s) ==
    SelectSeq(s, LAMBDA c : c \in AsciiLetters \cup AsciiDigits \cup {"_"})

re_sub_non_alnum(s) == SelectSeq(s, LAMBDA c : c \in AsciiLetters \cup AsciiDigits)

sanitize_filename(name) == re_sub_non_alnum(replace(replace(name, " "), "."))

(***************************************************************************)
(* Paths: f"{dir}/{name}".  An empty component leaves "dir/" or "dir//x",  *)
(* which the file system resolves to dir and dir/x.                        *)
(***************************************************************************)
Join(dir, name) == IF name = <<>> THEN dir ELSE Append(dir, name)

Parent(path) == SubSeq(path, 1, Len(path) - 1)

Prefixes(path) == {SubSeq(path, 1, n) : n \in 1..Len(path)}

IsUnder(path, dir) == Len(dir) <= Len(path) /\ SubSeq(path, 1, Len(dir)) = dir

(***************************************************************************)
(* The file system: existing directories, file contents, the log of the   *)
(* calls made, the number of calls that raised for an outside reason, and  *)
(* the number of such failures that the run may meet.                      *)
(***************************************************************************)
EmptyFs(budget) ==
    [dirs |-> {}, files |-> <<>>, log |-> <<>>, faults |-> 0, budget |-> budget]

\* ensure_directory: os.makedirs(path, exist_ok=True), exception swallowed
ensure_directory(f, path, fault) ==
    IF fault
    THEN [f EXCEPT !.faults = @ + 1,
                   !.log = Append(@, [op |-> "mkdir", path |-> path, ok |-> FALSE])]
    ELSE [f EXCEPT !.dirs = @ \cup Prefixes(path),
                   !.log = Append(@, [op |-> "mkdir", path |-> path, ok |-> TRUE])]

\* save_to_json: open(filename, 'w') + json.dump, exception swallowed
save_to_json(f, data, filename, fault) ==
    IF fault
    THEN [f EXCEPT !.faults = @ + 1,
                   !.log = Append(@, [op |-> "save", path |-> filename, ok |-> FALSE])]
    ELSE IF Parent(filename) \in f.dirs
    THEN [f EXCEPT !.files = (filename :> data) @@ @,
                   !.log = Append(@, [op |-> "save", path |-> filename, ok |-> TRUE])]
    ELSE [f EXCEPT !.log = Append(@, [op |-> "save", path |-> filename, ok |-> FALSE])]

\* the outcomes of n consecutive file-system calls: which of them raise
FaultChoices(f, n) ==
    {b \in [1..n -> BOOLEAN] :
        Cardinality({i \in 1..n : b[i]}) + f.faults <= f.budget}

(***************************************************************************)
(* Server responses.                                                       *)
(***************************************************************************)
Transport == [kind |-> "transport"]

BadJson == [kind |-> "badjson"]

Http(code) == [kind |-> "http", code |-> code]

Ok(json) == [kind |-> "ok", json |-> json]

\* requests raises a RequestException: transport error, raise_for_status, bad JSON
RaisesRequestException(resp) == resp.kind \in {"transport", "http", "badjson"}

St(cd, name, act) ==
    [stateCd |-> cd, stateName |-> name, stateNameHindi |-> <<"h">>, isActive |-> act]

Di(cd, name, act) ==
    [districtCd |-> cd, districtValue |-> name, districtValueHindi |-> <<"h">>,
     isActive |-> act]

Ac(no, name, act) ==
    [asmblyNo |-> no, asmblyName |-> name, asmblyNameL1 |-> <<"h">>, isActive |-> act]

StateCodes == {"S24", "S99"}

StateBodies ==
    { <<>>,
      <<St("S24", <<"T", " ", "S">>, "Y")>>,
      <<St("S01", <<"A">>, "N"),
        [stateCd |-> "S02", stateName |-> <<"B">>, stateNameHindi |-> <<"h">>],
        St("S24", <<"T", " ", "S">>, "Y")>>,
      <<St("S24", <<"T", " ", "S">>, "N")>>,
      <<[stateCd |-> "S24", stateName |-> <<"T">>, isActive |-> "Y"]>> }

DistrictBodies ==
    { <<>>,
      <<Di("D1", <<"A", " ", "B">>, "Y")>>,
      <<Di("D1", <<"A", " ", "B">>, "Y"), Di("D2", <<"C", ".">>, "Y")>>,
      <<Di("D1", <<"A", " ", "B">>, "Y"), Di("D2", <<"A", "B">>, "Y")>>,
      <<Di("D1", <<"-">>, "Y"), Di("D0", <<"z">>, "N"),
        [districtCd |-> "D9", districtValue |-> <<"b">>, districtValueHindi |-> <<"h">>],
        Di("D2", <<"C", ".">>, "Y")>>,
      <<[districtCd |-> "D1", isActive |-> "Y"]>> }

AssemblyBodies ==
    { <<>>,
      <<Ac(86, <<"T", " ", "A", "C">>, "Y")>>,
      <<Ac(86, <<"T", " ", "A", "C">>, "Y"), Ac(87, <<"T", "A", "C">>, "Y")>>,
      <<Ac(85, <<"z">>, "N"),
        [asmblyNo |-> 84, asmblyName |-> <<"b">>, asmblyNameL1 |-> <<"h">>],
        Ac(86, <<"B", "1">>, "Y")>>,
      <<[asmblyNo |-> 86, asmblyName |-> <<"B">>, isActive |-> "Y"]>>,
      <<[asmblyNo |-> 86, asmblyNameL1 |-> <<"h">>, isActive |-> "Y"],
        Ac(87, <<"B">>, "Y")>> }

GetResponses(bodies) ==
    {Transport, BadJson, Http(404), Http(500)} \cup {Ok(b) : b \in bodies}

\* page n of the part list of one assembly, holding len records
Page(n, len) ==
    [i \in 1..len |-> [partNumber |-> n * PARTS_PAGE_SIZE + i, partName |-> <<"B", " ", "1">>]]

\* a short page whose first record has no partName
NamelessPage(n) ==
    [i \in 1..ShortLen |->
        IF i = 1 THEN [partNumber |-> n * PARTS_PAGE_SIZE + i]
        ELSE [partNumber |-> n * PARTS_PAGE_SIZE + i, partName |-> <<"B", " ", "1">>]]

PageLens(n) == {0, ShortLen} \cup (IF n < MaxFullPages THEN {PARTS_PAGE_SIZE} ELSE {})

PartResponses(n) ==
    {Ok([status |-> "Success", payload |-> Page(n, len)]) : len \in PageLens(n)}
    \cup {Ok([status |-> "Failure", payload |-> Page(n, ShortLen)]),
          Ok([status |-> "Success"]),
          Ok([status |-> "Success", payload |-> NamelessPage(n)]),
          Http(401), Http(403), Http(429), Http(500), Transport, BadJson}

\* What the server of a run may answer.  server = "any": every response
\* above.  server = "plain": well-formed bodies, one error per endpoint and
\* no full part page (the runs that are combined with file-system failures).
\* server = "paging": the plain answers to the GET requests and every
\* response above to the part requests.
StateResponses ==
    IF server = "any" THEN GetResponses(StateBodies)
    ELSE {Transport, Ok(<<St("S24", <<"T", " ", "S">>, "Y")>>)}

DistrictResponses ==
    IF server = "any" THEN GetResponses(DistrictBodies)
    ELSE {Http(500), Ok(<<>>),
          Ok(<<Di("D1", <<"A", " ", "B">>, "Y"), Di("D2", <<"C", ".">>, "Y")>>)}

AssemblyResponses ==
    IF server = "any" THEN GetResponses(AssemblyBodies)
    ELSE {Http(500), Ok(<<>>),
          Ok(<<Ac(86, <<"T", " ", "A", "C">>, "Y"), Ac(87, <<"B", "1">>, "Y")>>)}

PartsResponses(n) ==
    IF server \in {"any", "paging"} THEN PartResponses(n)
    ELSE {Ok([status |-> "Success", payload |-> Page(n, ShortLen)]),
          Ok([status |-> "Success", payload |-> <<>>]),
          Http(429), Http(500)}

(***************************************************************************)
(* The fetchers.                                                           *)
(***************************************************************************)
StateKeys == {"stateCd", "stateName", "stateNameHindi"}

DistrictKeys == {"districtCd", "districtValue", "districtValueHindi"}

AssemblyKeys == {"asmblyNo", "asmblyName", "asmblyNameL1"}

PartKeys == {"partNumber", "partName"}

AllHaveKeys(recs, ks) == \A i \in 1..Len(recs) : HasKeys(recs[i], ks)

StateRec(s) ==
    [stateCd |-> s.stateCd, stateName |-> s.stateName,
     stateNameHindi |-> s.stateNameHindi]

DistrictRec(d) ==
    [districtCd |-> d.districtCd, districtValue |-> d.districtValue,
     districtValueHindi |-> d.districtValueHindi]

AssemblyRec(a) ==
    [acNumber |-> a.asmblyNo, asmblyName |-> a.asmblyName,
     asmblyNameL1 |-> a.asmblyNameL1]

PartRec(p) == [partNumber |-> p.partNumber, partName |-> p.partName]

StateRecs(recs) == [i \in 1..Len(recs) |-> StateRec(recs[i])]

DistrictRecs(recs) == [i \in 1..Len(recs) |-> DistrictRec(recs[i])]

AssemblyRecs(recs) == [i \in 1..Len(recs) |-> AssemblyRec(recs[i])]

PartRecs(recs) == [i \in 1..Len(recs) |-> PartRec(recs[i])]

fetch_states(resp) ==
    IF RaisesRequestException(resp) THEN None
    ELSE LET active == SelectSeq(resp.json, IsActive)
         IN  IF AllHaveKeys(active, StateKeys)
             THEN List(StateRecs(active)) ELSE KeyError

fetch_districts(resp) ==
    IF RaisesRequestException(resp) THEN None
    ELSE LET active == SelectSeq(resp.json, IsActive)
         IN  IF AllHaveKeys(active, DistrictKeys)
             THEN List(DistrictRecs(active)) ELSE KeyError

\* allstate.py: one comprehension over the active records
fetch_assemblies_v1(resp) ==
    IF RaisesRequestException(resp) THEN None
    ELSE LET active == SelectSeq(resp.json, IsActive)
         IN  IF AllHaveKeys(active, AssemblyKeys)
             THEN List(AssemblyRecs(active)) ELSE KeyError

\* v2.py: inactive records and records without a name or a number are skipped
KeepAssembly(a) ==
    IsActive(a) /\ TruthyText(a, "asmblyName") /\ TruthyNum(a, "asmblyNo")

fetch_assemblies_v2(resp) ==
    IF RaisesRequestException(resp) THEN None
    ELSE IF resp.json = <<>> THEN List(<<>>)
    ELSE LET kept == SelectSeq(resp.json, KeepAssembly)
         IN  IF AllHaveKeys(kept, AssemblyKeys)
             THEN List(AssemblyRecs(kept)) ELSE KeyError

fetch_assemblies(v, resp) ==
    IF v = "v1" THEN fetch_assemblies_v1(resp) ELSE fetch_assemblies_v2(resp)

\* data.get("status") != "Success" or not data.get("payload")
NoParts(data) ==
    \/ "status" \notin DOMAIN data
    \/ data.status # "Success"
    \/ "payload" \notin DOMAIN data
    \/ data.payload = <<>>

\* allstate.py: return parts if parts else None
ReturnV1(ps) == IF ps # <<>> THEN List(ps) ELSE None

\* v2.py: the handling of a response that passed raise_for_status
KeepPart(p) == TruthyText(p, "partName")

ParseV2(resp) ==
    IF resp.kind = "badjson" THEN None
    ELSE IF NoParts(resp.json) THEN List(<<>>)
    ELSE LET kept == SelectSeq(resp.json.payload, KeepPart)
         IN  IF AllHaveKeys(kept, PartKeys)
             THEN List(PartRecs(kept)) ELSE KeyError

(***************************************************************************)
(* Locals of build_election_data that are derived from its other locals,   *)
(* and its tests of the results of the fetchers.                           *)
(***************************************************************************)
\* next((s for s in states if s["stateCd"] == state_cd), None)
FindState(sts, cd) ==
    LET hits == {i \in 1..Len(sts) : sts[i].stateCd = cd}
    IN  IF hits = {} THEN None
        ELSE List(sts[CHOOSE i \in hits : \A j \in hits : i <= j])

StateDirOf(st) == Join(DATA_DIR, sanitize_filename(st.stateName))

state_dir == StateDirOf(FindState(states.val, state_cd).val)

DistrictDirOf(sdir, d) == Join(sdir, sanitize_filename(d.districtValue))

district_dir == DistrictDirOf(state_dir, districts.val[di])

AssemblyDirOf(ddir, a) == Join(ddir, sanitize_filename(a.asmblyName))

assembly_dir == AssemblyDirOf(district_dir, assemblies.val[ai])

\* if not states
StatesMissing(r) == r = None \/ r.val = <<>>

\* the test written as "if not districts"
DistrictsMissing_falsy(r) == r = None \/ r.val = <<>>

\* if districts is None
DistrictsMissing(r) == r = None

\* if assemblies is None
AssembliesMissing(r) == r = None

\* if parts is None
PartsMissing(r) == r = None

Crash ==
    /\ pc' = "crashed"
    /\ outcome' = "exception"

Return(o) ==
    /\ pc' = "done"
    /\ outcome' = o

(***************************************************************************)
(* build_election_data, up to the resolution of the target state.          *)
(***************************************************************************)
FetchStates ==
    /\ pc = "fetch_states"
    /\ session' = IF impl = "v2" THEN "open" ELSE session
    /\ reqLog' = Append(reqLog, [ep |-> "states"])
    /\ \E resp \in StateResponses :
         LET r == fetch_states(resp) IN
         /\ lastResp' = resp
         /\ states' = r
         /\ IF r = KeyError THEN Crash /\ fs' = fs
            ELSE IF StatesMissing(r)
            THEN Return("states_failed") /\ fs' = fs
            ELSE \E b \in FaultChoices(fs, 3) :
                   LET f1 == ensure_directory(fs, DATA_DIR, b[1])
                       f2 == save_to_json(f1, r.val, Join(DATA_DIR, <<"allstates.json">>), b[2])
                       state == FindState(r.val, state_cd)
                   IN  IF state = None
                       THEN /\ ~b[3]
                            /\ Return("not_found")
                            /\ fs' = f2
                       ELSE /\ pc' = "fetch_districts"
                            /\ fs' = ensure_directory(f2, StateDirOf(state.val), b[3])
                            /\ UNCHANGED outcome
    /\ UNCHANGED <<impl, state_cd, server, input_name, sanitized,
                   districts, assemblies, parts, di, ai, acc,
                   page_number, callLog, got>>

(***************************************************************************)
(* build_election_data: the district list of the target state.             *)
(***************************************************************************)
FetchDistricts ==
    /\ pc = "fetch_districts"
    /\ reqLog' = Append(reqLog, [ep |-> "districts", stateCd |-> state_cd])
    /\ \E resp \in DistrictResponses :
         LET r == fetch_districts(resp) IN
         /\ lastResp' = resp
         /\ districts' = r
         /\ IF r = KeyError THEN Crash /\ fs' = fs /\ di' = di
            ELSE IF DistrictsMissing(r)
            THEN Return("districts_failed") /\ fs' = fs /\ di' = di
            ELSE \E b \in FaultChoices(fs, 1) :
                   /\ fs' = save_to_json(fs, r.val, Join(state_dir, <<"districts.json">>), b[1])
                   /\ di' = 1
                   /\ pc' = "district"
                   /\ UNCHANGED outcome
    /\ UNCHANGED <<impl, state_cd, server, input_name, sanitized,
                   session, states, assemblies, parts, ai, acc,
                   page_number, callLog, got>>

\* the iteration without the save_to_json of assemblies.json
DistrictStep_no_save ==
    /\ pc = "district"
    /\ di <= Len(districts.val)
    /\ reqLog' = Append(reqLog, [ep |-> "acs", districtCd |-> districts.val[di].districtCd])
    /\ \E resp \in AssemblyResponses, b \in FaultChoices(fs, 1) :
         LET r == fetch_assemblies(impl, resp)
             f1 == ensure_directory(fs, district_dir, b[1])
         IN
         /\ lastResp' = resp
         /\ assemblies' = r
         /\ got' = [got EXCEPT !.acs = Append(@, [res |-> r,
                                                  failed |-> RaisesRequestException(resp),
                                                  at |-> Len(f1.log)])]
         /\ fs' = f1
         /\ IF r = KeyError
            THEN Crash /\ UNCHANGED <<di, ai>>
            ELSE IF AssembliesMissing(r) \/ r.val = <<>>
            THEN di' = di + 1 /\ UNCHANGED <<pc, outcome, ai>>
            ELSE di' = di /\ ai' = 1 /\ pc' = "assembly" /\ UNCHANGED outcome
    /\ UNCHANGED <<impl, state_cd, server, input_name, sanitized,
                   session, states, districts, parts, acc,
                   page_number, callLog>>

(***************************************************************************)
(* One iteration of the district loop, up to the assembly loop.            *)
(***************************************************************************)
DistrictStep ==
    /\ pc = "district"
    /\ di <= Len(districts.val)
    /\ reqLog' = Append(reqLog, [ep |-> "acs", districtCd |-> districts.val[di].districtCd])
    /\ \E resp \in AssemblyResponses, b \in FaultChoices(fs, 2) :
         LET r == fetch_assemblies(impl, resp)
             f1 == ensure_directory(fs, district_dir, b[1])
         IN
         /\ lastResp' = resp
         /\ assemblies' = r
         /\ got' = [got EXCEPT !.acs = Append(@, [res |-> r,
                                                  failed |-> RaisesRequestException(resp),
                                                  at |-> Len(f1.log)])]
         /\ IF r = KeyError
            THEN /\ ~b[2]
                 /\ Crash /\ fs' = f1 /\ UNCHANGED <<di, ai>>
            ELSE IF AssembliesMissing(r)
            THEN /\ ~b[2]
                 /\ fs' = f1
                 /\ di' = di + 1
                 /\ UNCHANGED <<pc, outcome, ai>>
            ELSE /\ fs' = save_to_json(f1, r.val, Join(district_dir, <<"assemblies.json">>), b[2])
                 /\ IF r.val = <<>>
                    THEN di' = di + 1 /\ UNCHANGED <<pc, ai>>
                    ELSE di' = di /\ ai' = 1 /\ pc' = "assembly"
                 /\ UNCHANGED outcome
    /\ UNCHANGED <<impl, state_cd, server, input_name, sanitized,
                   session, states, districts, parts, acc,
                   page_number, callLog>>

\* the iteration with an ensure_directory that lets the exception through
AssemblyStep_raising ==
    /\ pc = "assembly"
    /\ \E b \in FaultChoices(fs, 1) :
         /\ fs' = ensure_directory(fs, assembly_dir, b[1])
         /\ IF b[1] THEN Crash ELSE pc' = "parts_post" /\ UNCHANGED outcome
    /\ UNCHANGED <<impl, state_cd, server, input_name, sanitized,
                   session, states, districts,
                   assemblies, parts, di, ai, acc, page_number, callLog,
                   reqLog, lastResp, got>>

(***************************************************************************)
(* One iteration of the assembly loop, up to the entry of fetch_parts.     *)
(***************************************************************************)
AssemblyStep ==
    /\ pc = "assembly"
    /\ \E b \in FaultChoices(fs, 1) :
         fs' = ensure_directory(fs, assembly_dir, b[1])
    /\ pc' = "parts_post"
    /\ UNCHANGED <<impl, state_cd, server, input_name, sanitized,
                   outcome, session, states, districts,
                   assemblies, parts, di, ai, acc, page_number, callLog,
                   reqLog, lastResp, got>>

(***************************************************************************)
(* fetch_parts.  callLog is the trace of the current call: the requests    *)
(* posted, the responses received and the sleeps taken.                    *)
(***************************************************************************)
PostRequest ==
    [ep |-> "parts", stateCd |-> state_cd,
     districtCd |-> districts.val[di].districtCd,
     acNumber |-> assemblies.val[ai].acNumber,
     pageNumber |-> page_number, pageSize |-> PARTS_PAGE_SIZE]

Exchange(resp) == <<[e |-> "post", page |-> page_number], [e |-> "resp", r |-> resp]>>

Sleep(secs) == [e |-> "sleep", secs |-> secs]

\* the iteration without the time.sleep(1) of line 142
PartsIterationV1_no_sleep(resp) ==
    IF RaisesRequestException(resp) \/ NoParts(resp.json)
    THEN /\ callLog' = callLog \o Exchange(resp)
         /\ parts' = ReturnV1(acc)
         /\ pc' = "parts_done"
         /\ UNCHANGED <<acc, page_number, outcome>>
    ELSE IF ~AllHaveKeys(resp.json.payload, PartKeys)
    THEN /\ callLog' = callLog \o Exchange(resp)
         /\ Crash
         /\ UNCHANGED <<acc, page_number, parts>>
    ELSE /\ acc' = acc \o PartRecs(resp.json.payload)
         /\ page_number' = page_number + 1
         /\ callLog' = callLog \o Exchange(resp)
         /\ IF Len(resp.json.payload) < PARTS_PAGE_SIZE
            THEN parts' = ReturnV1(acc') /\ pc' = "parts_done"
            ELSE UNCHANGED <<parts, pc>>
         /\ UNCHANGED outcome

\* the iteration with page_number += 2 in the place of line 139
PartsIterationV1_skip_page(resp) ==
    IF RaisesRequestException(resp) \/ NoParts(resp.json)
    THEN /\ callLog' = callLog \o Exchange(resp)
         /\ parts' = ReturnV1(acc)
         /\ pc' = "parts_done"
         /\ UNCHANGED <<acc, page_number, outcome>>
    ELSE IF ~AllHaveKeys(resp.json.payload, PartKeys)
    THEN /\ callLog' = callLog \o Exchange(resp)
         /\ Crash
         /\ UNCHANGED <<acc, page_number, parts>>
    ELSE /\ acc' = acc \o PartRecs(resp.json.payload)
         /\ page_number' = page_number + 2
         /\ IF Len(resp.json.payload) < PARTS_PAGE_SIZE
            THEN /\ callLog' = callLog \o Exchange(resp)
                 /\ parts' = ReturnV1(acc')
                 /\ pc' = "parts_done"
            ELSE /\ callLog' = Append(callLog \o Exchange(resp), Sleep(1))
                 /\ UNCHANGED <<parts, pc>>
         /\ UNCHANGED outcome

\* allstate.py: one iteration of the while loop
PartsIterationV1(resp) ==
    IF RaisesRequestException(resp) \/ NoParts(resp.json)
    THEN /\ callLog' = callLog \o Exchange(resp)
         /\ parts' = ReturnV1(acc)
         /\ pc' = "parts_done"
         /\ UNCHANGED <<acc, page_number, outcome>>
    ELSE IF ~AllHaveKeys(resp.json.payload, PartKeys)
    THEN /\ callLog' = callLog \o Exchange(resp)
         /\ Crash
         /\ UNCHANGED <<acc, page_number, parts>>
    ELSE /\ acc' = acc \o PartRecs(resp.json.payload)
         /\ page_number' = page_number + 1
         /\ IF Len(resp.json.payload) < PARTS_PAGE_SIZE
            THEN /\ callLog' = callLog \o Exchange(resp)
                 /\ parts' = ReturnV1(acc')
                 /\ pc' = "parts_done"
            ELSE /\ callLog' = Append(callLog \o Exchange(resp), Sleep(1))
                 /\ UNCHANGED <<parts, pc>>
         /\ UNCHANGED outcome

\* v2.py: from raise_for_status to the return
AfterStatusV2(resp) ==
    IF resp.kind \in {"transport", "http"} THEN None ELSE ParseV2(resp)

ReturnV2(r) ==
    IF r = KeyError
    THEN Crash /\ UNCHANGED parts
    ELSE parts' = r /\ pc' = "parts_done" /\ UNCHANGED outcome

\* v2.py: the single post and the status tests that follow it
PartsPostV2(resp) ==
    /\ UNCHANGED <<acc, page_number>>
    /\ IF resp.kind = "http" /\ resp.code = 429
       THEN /\ callLog' = Append(callLog \o Exchange(resp), Sleep(5))
            /\ pc' = "parts_retry"
            /\ UNCHANGED <<parts, outcome>>
       ELSE /\ callLog' = callLog \o Exchange(resp)
            /\ IF resp.kind = "http" /\ resp.code \in {401, 403}
               THEN ReturnV2(None)
               ELSE ReturnV2(AfterStatusV2(resp))

PartsPost ==
    /\ pc = "parts_post"
    /\ reqLog' = Append(reqLog, PostRequest)
    /\ \E resp \in PartsResponses(page_number) :
         /\ lastResp' = resp
         /\ IF impl = "v1" THEN PartsIterationV1(resp) ELSE PartsPostV2(resp)
    /\ UNCHANGED <<impl, state_cd, server, input_name, sanitized,
                   session, states, districts, assemblies,
                   di, ai, fs, got>>

\* v2.py: the second post, after a 429 and the backoff
PartsRetry ==
    /\ pc = "parts_retry"
    /\ reqLog' = Append(reqLog, PostRequest)
    /\ \E resp \in PartsResponses(page_number) :
         /\ lastResp' = resp
         /\ callLog' = callLog \o Exchange(resp)
         /\ ReturnV2(AfterStatusV2(resp))
    /\ UNCHANGED <<impl, state_cd, server, input_name, sanitized,
                   session, states, districts, assemblies,
                   di, ai, acc, page_number, fs, got>>

\* the rest of the iteration with a break out of the assembly loop after it
PartsDone_break ==
    /\ pc = "parts_done"
    /\ got' = [got EXCEPT !.parts =
                   Append(@, [d |-> di, a |-> ai, res |-> parts,
                              failed |-> RaisesRequestException(lastResp)])]
    /\ IF PartsMissing(parts)
       THEN fs' = fs
       ELSE \E b \in FaultChoices(fs, 1) :
              fs' = save_to_json(fs, parts.val,
                                 Join(assembly_dir, <<"assemblies-part.json">>), b[1])
    /\ di' = di + 1 /\ pc' = "district" /\ ai' = ai
    /\ acc' = <<>>
    /\ page_number' = 0
    /\ callLog' = <<>>
    /\ lastResp' = None
    /\ UNCHANGED <<impl, state_cd, server, input_name, sanitized,
                   outcome, session, states, districts,
                   assemblies, parts, reqLog>>

(***************************************************************************)
(* The rest of the assembly iteration: the test of the result of           *)
(* fetch_parts, the write, and the advance of the two loops.               *)
(***************************************************************************)
PartsDone ==
    /\ pc = "parts_done"
    /\ got' = [got EXCEPT !.parts =
                   Append(@, [d |-> di, a |-> ai, res |-> parts,
                              failed |-> RaisesRequestException(lastResp)])]
    /\ IF PartsMissing(parts)
       THEN fs' = fs
       ELSE \E b \in FaultChoices(fs, 1) :
              fs' = save_to_json(fs, parts.val,
                                 Join(assembly_dir, <<"assemblies-part.json">>), b[1])
    /\ IF ai < Len(assemblies.val)
       THEN ai' = ai + 1 /\ pc' = "assembly" /\ di' = di
       ELSE di' = di + 1 /\ pc' = "district" /\ ai' = ai
    /\ acc' = <<>>
    /\ page_number' = 0
    /\ callLog' = <<>>
    /\ lastResp' = None
    /\ UNCHANGED <<impl, state_cd, server, input_name, sanitized,
                   outcome, session, states, districts,
                   assemblies, parts, reqLog>>

\* the district loop is exhausted; v2.py closes the session
Finish ==
    /\ pc = "district"
    /\ di > Len(districts.val)
    /\ session' = IF impl = "v2" THEN "closed" ELSE session
    /\ Return("completed")
    /\ UNCHANGED <<impl, state_cd, server, input_name, sanitized,
                   states, districts, assemblies, parts, di, ai,
                   acc, page_number, callLog, reqLog, lastResp, fs, got>>

\* main: build_election_data returns None on each of its paths and main
\* returns after it, so the interpreter exits with status 0; an exception
\* that nothing catches ends it with status 1
exit_status == IF pc = "crashed" THEN 1 ELSE 0

Init ==
    /\ impl \in {"v1", "v2"}
    /\ state_cd \in StateCodes
    /\ pc = "fetch_states"
    /\ outcome = "running"
    /\ session = "none"
    /\ states = None
    /\ districts = None
    /\ assemblies = None
    /\ parts = None
    /\ di = 0
    /\ ai = 0
    /\ acc = <<>>
    /\ page_number = 0
    /\ callLog = <<>>
    /\ reqLog = <<>>
    /\ lastResp = None
    /\ fs = EmptyFs(0)
    /\ got = [acs |-> <<>>, parts |-> <<>>]
    /\ server = "any"
    /\ input_name = <<>>
    /\ sanitized = <<>>

\* the same run on a file system on which up to MaxFsFaults calls raise
InitFs ==
    /\ impl \in {"v1", "v2"}
    /\ state_cd \in StateCodes
    /\ pc = "fetch_states"
    /\ outcome = "running"
    /\ session = "none"
    /\ states = None
    /\ districts = None
    /\ assemblies = None
    /\ parts = None
    /\ di = 0
    /\ ai = 0
    /\ acc = <<>>
    /\ page_number = 0
    /\ callLog = <<>>
    /\ reqLog = <<>>
    /\ lastResp = None
    /\ fs = EmptyFs(MaxFsFaults)
    /\ got = [acs |-> <<>>, parts |-> <<>>]
    /\ server = "plain"
    /\ input_name = <<>>
    /\ sanitized = <<>>

Next ==
    \/ FetchStates
    \/ FetchDistricts
    \/ DistrictStep
    \/ AssemblyStep
    \/ PartsPost
    \/ PartsRetry
    \/ PartsDone
    \/ Finish

Spec == Init /\ [][Next]_vars

SpecFs == InitFs /\ [][Next]_vars

\* the same run against the paging server
InitLive ==
    /\ impl \in {"v1", "v2"}
    /\ state_cd \in StateCodes
    /\ pc = "fetch_states"
    /\ outcome = "running"
    /\ session = "none"
    /\ states = None
    /\ districts = None
    /\ assemblies = None
    /\ parts = None
    /\ di = 0
    /\ ai = 0
    /\ acc = <<>>
    /\ page_number = 0
    /\ callLog = <<>>
    /\ reqLog = <<>>
    /\ lastResp = None
    /\ fs = EmptyFs(0)
    /\ got = [acs |-> <<>>, parts |-> <<>>]
    /\ server = "paging"
    /\ input_name = <<>>
    /\ sanitized = <<>>

\* The program is sequential and every request carries a timeout, so a step
\* that can be taken is taken.
SpecLive == InitLive /\ [][Next]_vars /\ WF_vars(Next)

(***************************************************************************)
(* sanitize_filename on its own: applied to a name, then to its result.    *)
(***************************************************************************)
NameChars == {"A", "z", "0", "9", " ", ".", "-", "_", "é"}

Names == UNION {[1..n -> NameChars] : n \in 0..MaxNameLen}

InitSanitize ==
    /\ impl \in {"v1", "v2"}
    /\ state_cd = "S24"
    /\ server = "any"
    /\ pc = "sanitize"
    /\ outcome = "running"
    /\ session = "none"
    /\ states = None
    /\ districts = None
    /\ assemblies = None
    /\ parts = None
    /\ di = 0
    /\ ai = 0
    /\ acc = <<>>
    /\ page_number = 0
    /\ callLog = <<>>
    /\ reqLog = <<>>
    /\ lastResp = None
    /\ fs = EmptyFs(0)
    /\ got = [acs |-> <<>>, parts |-> <<>>]
    /\ input_name \in Names
    /\ sanitized = <<>>

Sanitize ==
    /\ pc = "sanitize"
    /\ sanitized' = sanitize_filename(input_name)
    /\ pc' = "resanitize"
    /\ UNCHANGED <<impl, state_cd, server, input_name, outcome, session, states,
                   districts, assemblies, parts, di, ai, acc, page_number,
                   callLog, reqLog, lastResp, fs, got>>

Resanitize ==
    /\ pc = "resanitize"
    /\ sanitized' = sanitize_filename(sanitized)
    /\ pc' = "sanitized"
    /\ UNCHANGED <<impl, state_cd, server, input_name, outcome, session, states,
                   districts, assemblies, parts, di, ai, acc, page_number,
                   callLog, reqLog, lastResp, fs, got>>

NextSanitize ==
    \/ Sanitize
    \/ Resanitize

SpecSanitize == InitSanitize /\ [][NextSanitize]_vars

(***************************************************************************)
(* Properties.                                                             *)
(***************************************************************************)
\* the responses and the requests of the current fetch_parts call, in order
Resps == SelectSeq(callLog, LAMBDA x : x.e = "resp")

Posts == SelectSeq(callLog, LAMBDA x : x.e = "post")

\* a 200 response with status Success whose payload is page n, well formed
IsGoodPage(resp, n) ==
    /\ resp.kind = "ok"
    /\ HasKeys(resp.json, {"status", "payload"})
    /\ resp.json.status = "Success"
    /\ resp.json.payload = Page(n, Len(resp.json.payload))

AllGoodPages ==
    /\ Len(Resps) >= 1
    /\ \A i \in 1..Len(Resps) : IsGoodPage(Resps[i].r, Posts[i].page)
    /\ \A i \in 1..(Len(Resps) - 1) : Len(Resps[i].r.json.payload) = PARTS_PAGE_SIZE

ServedRecords == Concat([i \in 1..Len(Resps) |-> PartRecs(Resps[i].r.json.payload)])

\* the records that a result of fetch_parts carries (None carries none; C9
\* is about the difference between None and the empty list)
RecordsOf(r) == IF IsList(r) THEN r.val ELSE <<>>

\* C1: when every page served in a fetch_parts call is a successful page and
\* all of them but the last are full, the call has gone on to a short or
\* empty page, has asked for pages 0, 1, ... once each and no page beyond
\* the short one, and returns the records of all the pages served, in order.
C1_PaginationConcatenation ==
    (pc = "parts_done" /\ AllGoodPages) =>
        /\ Len(Resps[Len(Resps)].r.json.payload) < PARTS_PAGE_SIZE
        /\ \A i \in 1..Len(Posts) : Posts[i].page = i - 1
        /\ RecordsOf(parts) = ServedRecords

\* the position in callLog of the first response with status 429, 0 if none
First429 ==
    LET hits == {k \in 1..Len(callLog) :
                    callLog[k].e = "resp" /\ callLog[k].r = Http(429)}
    IN  IF hits = {} THEN 0 ELSE CHOOSE k \in hits : \A j \in hits : k <= j

\* C2: when a request of fetch_parts is answered with 429, the call sleeps,
\* posts the same request once more and posts nothing after that; a second
\* response that is a successful page makes the call return that page's
\* records, a second response with an error status makes it return None.
C2_RetryOnceOn429 ==
    (pc = "parts_done" /\ First429 # 0) =>
        LET k == First429 IN
        /\ Len(callLog) = k + 3
        /\ callLog[k + 1].e = "sleep"
        /\ callLog[k + 2] = callLog[k - 1]
        /\ callLog[k + 3].e = "resp"
        /\ IsGoodPage(callLog[k + 3].r, callLog[k + 2].page)
             => parts = List(PartRecs(callLog[k + 3].r.json.payload))
        /\ callLog[k + 3].r.kind = "http" => parts = None

\* C2 on v2.py alone
C2_RetryOnceOn429_v2 == impl = "v2" => C2_RetryOnceOn429

\* C1 on allstate.py alone
C1_PaginationConcatenation_v1 == impl = "v1" => C1_PaginationConcatenation

\* C3: once the district list has been fetched, no response to an assembly
\* or part request makes build_election_data end by an exception.
C3_NoAbortMidTraversal == ~(pc = "crashed" /\ IsList(districts))

\* the requests for assembly lists issued so far
AcsRequests == SelectSeq(reqLog, LAMBDA x : x.ep = "acs")

\* the directory of district k of the fetched district list
DirOfDistrict(k) == DistrictDirOf(state_dir, districts.val[k])

\* the fetch of the assemblies of district k did not yield a list
AcsFailed(k) == ~IsList(got.acs[k].res)

\* C4: when the fetch of a district's assemblies fails, the orchestrator goes
\* on to the next sibling district and asks for that district's assemblies
\* as it would have otherwise; no file written after the failure lies under
\* the failed district's directory or holds the failed district's record.
C4_SiblingAfterFailure ==
    /\ Len(AcsRequests) = Len(got.acs)
    /\ \A k \in 1..Len(AcsRequests) :
         AcsRequests[k].districtCd = districts.val[k].districtCd
    /\ \A k \in 1..Len(got.acs) : AcsFailed(k) =>
         /\ (Len(got.acs) = k /\ k < Len(districts.val))
               => (pc = "district" /\ di = k + 1)
         /\ \A i \in (got.acs[k].at + 1)..Len(fs.log) :
              (fs.log[i].op = "save" /\ fs.log[i].ok) =>
                 /\ ~IsUnder(fs.log[i].path, DirOfDistrict(k))
                 /\ \A j \in 1..Len(fs.files[fs.log[i].path]) :
                      fs.files[fs.log[i].path][j] # districts.val[k]

Stopped == pc \in {"done", "crashed"}

LoopEntered == di >= 1

AllStatesFile == Join(DATA_DIR, <<"allstates.json">>)

StatesNotFetched == ~IsList(states)

CodeNotFound ==
    IsList(states) /\ \A i \in 1..Len(states.val) : states.val[i].stateCd # state_cd

DistrictsRequested == \E i \in 1..Len(reqLog) : reqLog[i].ep = "districts"

DistrictsNotFetched == DistrictsRequested /\ ~IsList(districts)

RequestsBelowDistricts == {i \in 1..Len(reqLog) : reqLog[i].ep \in {"acs", "parts"}}

\* C5: a run that has ended stopped before the district loop exactly when
\* the state list was not fetched, or the state code is not among the
\* fetched states, or the district list was not fetched; such a run has
\* issued no assembly or part request and no request after the failing one,
\* and has written nothing but allstates.json.  A district list that was
\* fetched and is empty does not stop the run: districts.json is saved as
\* an empty array and the run completes.
C5_FatalConditions ==
    Stopped =>
        /\ ~LoopEntered <=> (StatesNotFetched \/ CodeNotFound \/ DistrictsNotFetched)
        /\ ~LoopEntered =>
             /\ RequestsBelowDistricts = {}
             /\ DOMAIN fs.files \subseteq {AllStatesFile}
             /\ (StatesNotFetched \/ CodeNotFound) => ~DistrictsRequested
             /\ StatesNotFetched => fs.log = <<>>
        /\ (IsList(districts) /\ districts.val = <<>>) =>
             /\ pc = "done" /\ outcome = "completed"
             /\ fs.log[Len(fs.log)].op = "save"
             /\ fs.log[Len(fs.log)].path = Join(state_dir, <<"districts.json">>)
             /\ fs.log[Len(fs.log)].ok => fs.files[Join(state_dir, <<"districts.json">>)] = <<>>

\* C5 witness: a run that fetched an empty district list and completed
C5_Witness ==
    /\ pc = "done"
    /\ outcome = "completed"
    /\ IsList(districts)
    /\ districts.val = <<>>
    /\ Join(state_dir, <<"districts.json">>) \in DOMAIN fs.files

\* C6: a run whose state code is not in the fetched state list ends with
\* the not-found outcome, has written allstates.json and no other file, has
\* created no state directory and has issued no request but the state one.
C6_UnknownStateCode ==
    (Stopped /\ CodeNotFound) =>
        /\ outcome = "not_found"
        /\ DOMAIN fs.files = {AllStatesFile}
        /\ fs.dirs \subseteq {DATA_DIR}
        /\ reqLog = <<[ep |-> "states"]>>

\* a response of the current call carries an HTTP error status other than 429
HttpErrorInCall ==
    \E i \in 1..Len(Resps) : Resps[i].r.kind = "http" /\ Resps[i].r.code # 429

\* the assembly loop moves to the next assembly, or the district loop to the
\* next district when the assemblies are exhausted
NextAssembly ==
    IF ai < Len(assemblies.val)
    THEN pc' = "assembly" /\ ai' = ai + 1 /\ di' = di
    ELSE pc' = "district" /\ di' = di + 1

\* C8: when a response of a fetch_parts call carried an HTTP error other
\* than 429, the call returns None, and the orchestrator writes no file for
\* that assembly and moves to the next assembly.
C8_HttpErrorFailsAssembly ==
    [][(pc = "parts_done" /\ HttpErrorInCall) =>
          /\ parts = None
          /\ fs' = fs
          /\ NextAssembly]_vars

\* the response to page 0 reports a status other than Success or no payload
Page0NoParts ==
    /\ Len(Resps) >= 1
    /\ Posts[Len(Resps)].page = 0
    /\ Resps[Len(Resps)].r.kind = "ok"
    /\ NoParts(Resps[Len(Resps)].r.json)

\* C9: when the page-0 response reports a non-success status or an empty
\* payload, fetch_parts returns the empty list, not None, and the
\* orchestrator saves assemblies-part.json for the assembly as it does for
\* any fetched part list.
C9_ZeroResultIsNotFailure ==
    [][(pc = "parts_done" /\ Page0NoParts) =>
          /\ parts = List(<<>>)
          /\ Len(fs'.log) = Len(fs.log) + 1
          /\ fs'.log[Len(fs'.log)].op = "save"
          /\ fs'.log[Len(fs'.log)].path = Join(assembly_dir, <<"assemblies-part.json">>)
          /\ NextAssembly]_vars

\* C10: fetch_assemblies returns None for every failed request and a list
\* for every answered one.  After None the orchestrator saves nothing for
\* the district and moves to the next district without any part request;
\* after an empty list it saves assemblies.json as an empty array and moves
\* to the next district.
C10_AssembliesFailureMarker ==
    [][Len(got'.acs) = Len(got.acs) + 1 =>
          LET e == got'.acs[Len(got'.acs)] IN
          /\ e.failed => /\ e.res = None
                         /\ fs'.files = fs.files
                         /\ fs'.log[Len(fs'.log)].op # "save"
                         /\ pc' = "district" /\ di' = di + 1
          /\ ~e.failed => /\ IsList(e.res)
                          /\ e.res.val = <<>> =>
                               /\ fs'.log[Len(fs'.log)].op = "save"
                               /\ fs'.log[Len(fs'.log)].path
                                     = Join(district_dir, <<"assemblies.json">>)
                               /\ fs'.log[Len(fs'.log)].ok
                                     => fs'.files[Join(district_dir, <<"assemblies.json">>)] = <<>>
                               /\ pc' = "district" /\ di' = di + 1]_vars

\* the run has completed, every request of it was answered without a
\* transport error, an HTTP error status or an undecodable body (for a part
\* list: the last request of the call), and every file-system call succeeded
CleanRun ==
    /\ pc = "done"
    /\ outcome = "completed"
    /\ \A k \in 1..Len(got.acs) : ~got.acs[k].failed
    /\ \A j \in 1..Len(got.parts) : ~got.parts[j].failed
    /\ \A i \in 1..Len(fs.log) : fs.log[i].ok

\* the directories that the layout assigns to the state, to district k and
\* to assembly a of district k: the sanitized names, one below the other
ExpStateDir ==
    Join(DATA_DIR, sanitize_filename(FindState(states.val, state_cd).val.stateName))

ExpDistrictDir(k) ==
    Join(ExpStateDir, sanitize_filename(districts.val[k].districtValue))

ExpAssemblyDir(k, a) ==
    Join(ExpDistrictDir(k), sanitize_filename(got.acs[k].res.val[a].asmblyName))

Holds(path, data) == path \in DOMAIN fs.files /\ fs.files[path] = data

\* the part list fetched for the assembly of entry e: the list returned, the
\* empty list when the call returned None
FetchedParts(e) == IF IsList(e.res) THEN e.res.val ELSE <<>>

\* C7: at the end of a clean run the tree holds allstates.json with the
\* active states, districts.json with the districts of the state, one
\* assemblies.json per district with the assemblies of the district and one
\* assemblies-part.json per assembly with the part list fetched for it, each
\* in the directory named by the sanitized names.
C7_OutputTree ==
    CleanRun =>
        /\ Holds(AllStatesFile, states.val)
        /\ Holds(Join(ExpStateDir, <<"districts.json">>), districts.val)
        /\ Len(got.acs) = Len(districts.val)
        /\ \A k \in 1..Len(got.acs) :
             /\ IsList(got.acs[k].res)
             /\ Holds(Join(ExpDistrictDir(k), <<"assemblies.json">>), got.acs[k].res.val)
             /\ \A a \in 1..Len(got.acs[k].res.val) :
                  \E j \in 1..Len(got.parts) :
                     /\ got.parts[j].d = k /\ got.parts[j].a = a
                     /\ Holds(Join(ExpAssemblyDir(k, a), <<"assemblies-part.json">>),
                              FetchedParts(got.parts[j]))

\* the record carries the active flag with the affirmative value
FlagIsY(r) == \E k \in DOMAIN r : k = "isActive" /\ r[k] = "Y"

\* the step issues a request to endpoint ep and the server answers it with a
\* decoded body
Answered(ep) ==
    /\ Len(reqLog') = Len(reqLog) + 1
    /\ reqLog'[Len(reqLog')].ep = ep
    /\ lastResp'.kind = "ok"

\* the fields by which a record of each level is identified
CodesOf(recs, key) == [i \in 1..Len(recs) |-> recs[i][key]]

\* C11 for one level: on a body whose flagged records carry the fields of
\* the level, the result is the list of the flagged records, projected, in
\* the order of the body; and whenever there is a result, each record of it
\* has the code of a flagged record of the body.
ActiveOnly(body, res, keys, expected, inkey, outkey) ==
    /\ AllHaveKeys(SelectSeq(body, FlagIsY), keys) => res = List(expected)
    /\ IsList(res) =>
         \A j \in 1..Len(res.val) :
            \E i \in 1..Len(body) :
               /\ FlagIsY(body[i])
               /\ inkey \in DOMAIN body[i]
               /\ body[i][inkey] = res.val[j][outkey]

Named(r, k) == \E j \in DOMAIN r : j = k /\ r[j] # <<>>

\* an active assembly record with a name and a constituency number
ValidAssembly(r) == FlagIsY(r) /\ Named(r, "asmblyName") /\ "asmblyNo" \in DOMAIN r

\* a part record with a name
ValidPart(r) == Named(r, "partName")

\* the response to page 0 is a successful page, not full and not empty
ShortPage0(resp) ==
    /\ page_number = 0
    /\ resp.kind = "ok"
    /\ ~NoParts(resp.json)
    /\ Len(resp.json.payload) < PARTS_PAGE_SIZE
    /\ AllHaveKeys(resp.json.payload, {"partNumber"})

\* C12: an assembly record without a name or a number, and a part record
\* without a name, is left out of the result; the fetch still returns, and
\* its result holds every other valid record of the response, in order.
C12_DropIncomplete ==
    [][/\ (/\ Answered("acs")
            /\ AllHaveKeys(SelectSeq(lastResp'.json, ValidAssembly), {"asmblyNameL1"}))
           => assemblies' = List(AssemblyRecs(SelectSeq(lastResp'.json, ValidAssembly)))
       /\ (Answered("parts") /\ ShortPage0(lastResp'))
           => /\ pc' = "parts_done"
              /\ RecordsOf(parts')
                    = PartRecs(SelectSeq(lastResp'.json.payload, ValidPart))]_vars

\* C12 on v2.py alone
C12_DropIncomplete_v2 ==
    [][impl = "v2" =>
        /\ (/\ Answered("acs")
             /\ AllHaveKeys(SelectSeq(lastResp'.json, ValidAssembly), {"asmblyNameL1"}))
            => assemblies' = List(AssemblyRecs(SelectSeq(lastResp'.json, ValidAssembly)))
        /\ (Answered("parts") /\ ShortPage0(lastResp'))
            => /\ pc' = "parts_done"
               /\ RecordsOf(parts')
                     = PartRecs(SelectSeq(lastResp'.json.payload, ValidPart))]_vars

\* every character of the text is an ASCII letter or an ASCII digit
IsToken(s) == \A i \in 1..Len(s) : s[i] \in AsciiLetters \cup AsciiDigits

\* C13: sanitize_filename applied to its own result returns that result, and
\* applied to a name made of ASCII letters and digits only returns the name.
C13_SanitizeIdempotent ==
    [][/\ pc = "resanitize" => sanitized' = sanitized
       /\ (pc = "sanitize" /\ IsToken(input_name)) => sanitized' = input_name]_vars

\* C13 witness: the second application has run on a result that differs from
\* the name and is not empty
C13_Witness ==
    /\ pc = "sanitized"
    /\ sanitized # <<>>
    /\ Len(sanitized) + 2 = Len(input_name)

\* the ASCII letters and digits of a text, in their order
RECURSIVE LettersAndDigits(_)
LettersAndDigits(s) ==
    IF s = <<>> THEN <<>>
    ELSE (IF Head(s) \in AsciiLetters \cup AsciiDigits THEN <<Head(s)>> ELSE <<>>)
         \o LettersAndDigits(Tail(s))

NewAttempts ==
    [i \in 1..(Len(fs'.log) - Len(fs.log)) |->
        [op |-> fs'.log[Len(fs.log) + i].op, path |-> fs'.log[Len(fs.log) + i].path]]

Mk(path) == [op |-> "mkdir", path |-> path]

Sv(path) == [op |-> "save", path |-> path]

\* the number of requests that the step issues
NewRequests == Len(reqLog') - Len(reqLog)

\* C15: whatever the outcome of each ensure_directory and save_to_json call,
\* every step of the orchestrator issues the request, attempts the calls and
\* goes on to the place that the results of the fetches alone determine; no
\* step ends the run by an exception.
C15_FsFailuresDoNotRedirect ==
    [][/\ pc' # "crashed"
       /\ pc = "fetch_states" =>
            /\ NewRequests = 1
            /\ StatesMissing(states') => (NewAttempts = <<>> /\ pc' = "done")
            /\ ~StatesMissing(states') =>
                 LET found == FindState(states'.val, state_cd) IN
                 /\ found = None =>
                      /\ NewAttempts = <<Mk(DATA_DIR), Sv(AllStatesFile)>>
                      /\ pc' = "done"
                 /\ found # None =>
                      /\ NewAttempts = <<Mk(DATA_DIR), Sv(AllStatesFile),
                                         Mk(StateDirOf(found.val))>>
                      /\ pc' = "fetch_districts"
       /\ pc = "fetch_districts" =>
            /\ NewRequests = 1
            /\ districts' = None => (NewAttempts = <<>> /\ pc' = "done")
            /\ districts' # None =>
                 /\ NewAttempts = <<Sv(Join(state_dir, <<"districts.json">>))>>
                 /\ pc' = "district" /\ di' = 1
       /\ (pc = "district" /\ di <= Len(districts.val)) =>
            /\ NewRequests = 1
            /\ assemblies' = None =>
                 /\ NewAttempts = <<Mk(district_dir)>>
                 /\ pc' = "district" /\ di' = di + 1
            /\ assemblies' # None =>
                 /\ NewAttempts = <<Mk(district_dir),
                                    Sv(Join(district_dir, <<"assemblies.json">>))>>
                 /\ IF assemblies'.val = <<>>
                    THEN pc' = "district" /\ di' = di + 1
                    ELSE pc' = "assembly" /\ di' = di /\ ai' = 1
       /\ (pc = "district" /\ di > Len(districts.val)) =>
            (NewRequests = 0 /\ NewAttempts = <<>> /\ pc' = "done")
       /\ pc = "assembly" =>
            /\ NewRequests = 0
            /\ NewAttempts = <<Mk(assembly_dir)>>
            /\ pc' = "parts_post"
       /\ pc \in {"parts_post", "parts_retry"} =>
            (NewRequests = 1 /\ NewAttempts = <<>>)
       /\ pc = "parts_done" =>
            /\ NewRequests = 0
            /\ NewAttempts = IF parts = None THEN <<>>
                             ELSE <<Sv(Join(assembly_dir, <<"assemblies-part.json">>))>>
            /\ NextAssembly]_vars

\* C15 witness: a completed run in which the creation of a directory failed,
\* the write into that directory was attempted all the same and failed, and
\* a later write succeeded
C15_Witness ==
    /\ pc = "done"
    /\ outcome = "completed"
    /\ \E i, j, k \in 1..Len(fs.log) :
         /\ i < j /\ j < k
         /\ fs.log[i].op = "mkdir" /\ ~fs.log[i].ok
         /\ fs.log[j].op = "save" /\ ~fs.log[j].ok
         /\ Parent(fs.log[j].path) = fs.log[i].path
         /\ fs.log[k].op = "save" /\ fs.log[k].ok

\* C16: when build_election_data of v2.py has ended, by whichever path, the
\* session it created is closed; and once the session is closed the run has
\* ended, so that no request is issued on a closed session.
C16_SessionClosedOnEveryPath ==
    /\ (impl = "v2" /\ Stopped) => session = "closed"
    /\ session = "closed" => Stopped

\* C16 on the path that reaches the end of the district loop
C16_SessionClosedAtNormalEnd ==
    /\ (impl = "v2" /\ pc = "done" /\ outcome = "completed") => session = "closed"
    /\ session = "closed" => Stopped

\* the fetch_parts call in progress has returned or has ended by an exception
CallEnded == pc = "parts_done" \/ (pc = "crashed" /\ callLog # <<>>)

\* C17: in a fetch_parts call of allstate.py every request for a page after
\* page 0 comes right after the one-second sleep that follows the response
\* to the page before it, and every sleep is followed by a request: the call
\* does not end on a sleep.
C17_DelayBetweenPages ==
    impl = "v1" =>
        /\ \A k \in 1..Len(callLog) :
             (callLog[k].e = "post" /\ k > 1) =>
                /\ k >= 4
                /\ callLog[k - 1] = Sleep(1)
                /\ callLog[k - 2].e = "resp"
                /\ callLog[k - 3].e = "post"
        /\ \A k \in 1..Len(callLog) :
             callLog[k].e = "sleep" =>
                IF k < Len(callLog) THEN callLog[k + 1].e = "post"
                ELSE ~CallEnded /\ pc = "parts_post"

\* C17 witness: a call of allstate.py that requested two pages has returned
C17_Witness ==
    /\ impl = "v1"
    /\ pc = "parts_done"
    /\ Len(Posts) = 2
    /\ Len(callLog) = 5

\* the run ended on one of the three fatal conditions
FatalOutcome == outcome \in {"states_failed", "not_found", "districts_failed"}

\* a district or an assembly of the run was skipped after a failed fetch
BranchSkipped ==
    \/ \E k \in 1..Len(got.acs) : got.acs[k].res = None
    \/ \E j \in 1..Len(got.parts) : got.parts[j].res = None

\* C18: a run that completed exits with status 0 whether or not branches
\* were skipped, and a run that ended on a fatal condition exits with another
\* status.
C18_ExitStatus ==
    Stopped =>
        /\ outcome = "completed" => exit_status = 0
        /\ FatalOutcome => exit_status # 0

\* C18 for the runs that reach the end of the district loop, with a branch
\* skipped
C18_ExitStatusCompleted ==
    (Stopped /\ outcome = "completed" /\ BranchSkipped) => exit_status = 0

\* the positions in reqLog of the requests to endpoint ep
RequestsTo(ep) == {i \in 1..Len(reqLog) : reqLog[i].ep = ep}

\* C19 as stated: the assembly lists of all districts are requested before
\* any part list, that is, no part request precedes an assembly request.
C19_BreadthFirst ==
    \A i \in RequestsTo("parts"), j \in RequestsTo("acs") : j < i

\* the position of the last assembly request before position i, 0 if none
LastAcsBefore(i) ==
    LET before == {j \in RequestsTo("acs") : j < i}
    IN  IF before = {} THEN 0 ELSE CHOOSE j \in before : \A k \in before : k <= j

\* the part calls that have returned for the assemblies of district k
PartCallsOf(k) == {j \in 1..Len(got.parts) : got.parts[j].d = k}

\* C19 amended: the traversal is depth-first.  The assembly lists are
\* requested in the order of the district list; every part request is for
\* the district of the latest assembly request before it; and when the
\* assembly list of the next district is requested, a part call has been
\* made for every assembly of each district before it.
C19_DepthFirst ==
    /\ \A k \in 1..Len(AcsRequests) :
         AcsRequests[k].districtCd = districts.val[k].districtCd
    /\ \A i \in RequestsTo("parts") :
         /\ LastAcsBefore(i) # 0
         /\ reqLog[LastAcsBefore(i)].districtCd = reqLog[i].districtCd
    /\ \A k \in 1..(Len(got.acs) - 1) :
         IsList(got.acs[k].res) =>
            {got.parts[j].a : j \in PartCallsOf(k)} = 1..Len(got.acs[k].res.val)

\* C19 witness: the parts of an assembly of the first district were requested
\* and afterwards the assembly list of the second district
C19_Witness ==
    /\ Len(got.acs) = 2
    /\ PartCallsOf(1) # {}
    /\ \E i \in RequestsTo("parts"), j \in RequestsTo("acs") : i < j

\* a successful page with PARTS_PAGE_SIZE well-formed records
IsFullPage(resp) ==
    /\ resp.kind = "ok"
    /\ ~NoParts(resp.json)
    /\ Len(resp.json.payload) = PARTS_PAGE_SIZE
    /\ AllHaveKeys(resp.json.payload, PartKeys)

\* the pages requested in the call so far are 0, 1, ..., each once, and the
\* call has ended only if the last response is not a full page
PagesInOrder ==
    /\ \A i \in 1..Len(Posts) : Posts[i].page = i - 1
    /\ \A i \in 1..(Len(Resps) - 1) : IsFullPage(Resps[i].r)
    /\ CallEnded => ~IsFullPage(Resps[Len(Resps)].r)

\* a full page makes the call request the next page
FullPageContinues ==
    (pc = "parts_post" /\ IsFullPage(lastResp')) =>
        /\ pc' = "parts_post"
        /\ page_number' = page_number + 1
        /\ acc' = acc \o PartRecs(lastResp'.json.payload)

\* C20: in a fetch_parts call of allstate.py the pages requested are 0, 1,
\* ..., k in this order, each once; the call ends only on a response that is
\* not a full page, and it does end once the server returns a short page, an
\* empty or non-success payload or an error; while the server returns full
\* pages the call goes on to the next page.
C20_PagesAndTermination ==
    /\ [](impl = "v1" => PagesInOrder)
    /\ [][impl = "v1" => FullPageContinues]_vars
    /\ (impl = "v1" /\ pc = "parts_post") ~> CallEnded

\* C20 witness: a call of allstate.py that got a full page 0 has ended on an
\* error response to its request for page 1
C20_Witness ==
    /\ impl = "v1"
    /\ pc = "parts_done"
    /\ Len(Posts) = 2
    /\ RaisesRequestException(Resps[2].r)
    /\ Len(RecordsOf(parts)) = PARTS_PAGE_SIZE

\* the positions in the log of the attempts to write a file called file
WritesOf(file) ==
    {i \in 1..Len(fs.log) :
        fs.log[i].op = "save" /\ fs.log[i].path[Len(fs.log[i].path)] = <<file>>}

\* the part of the log that belongs to the k-th district visited: from the
\* creation of its directory to the last call before the next district's
FirstOf(k) == got.acs[k].at

LastOf(k) == IF k < Len(got.acs) THEN got.acs[k + 1].at - 1 ELSE Len(fs.log)

\* C21: the writes are attempted parent first.  allstates.json is attempted
\* before districts.json and districts.json before any assemblies.json; the
\* attempt to write a district's assemblies.json comes first among the
\* writes of that district, before each assemblies-part.json of it; and
\* every assemblies-part.json attempt belongs to a district whose
\* assemblies.json was attempted.
C21_ParentFirstWrites ==
    LET allstates == WritesOf("allstates.json")
        dists == WritesOf("districts.json")
        asms == WritesOf("assemblies.json")
        prts == WritesOf("assemblies-part.json")
    IN  /\ \A i \in dists : \E j \in allstates : j < i
        /\ \A i \in asms : \E j \in dists : j < i
        /\ \A i \in prts :
             \E k \in 1..Len(got.acs) :
                /\ FirstOf(k) < i /\ i <= LastOf(k)
                /\ FirstOf(k) + 1 < i
                /\ FirstOf(k) + 1 \in asms
                /\ fs.log[FirstOf(k) + 1].path
                      = Join(DirOfDistrict(k), <<"assemblies.json">>)
        /\ \A k \in 1..Len(got.acs) :
             FirstOf(k) + 1 \notin asms =>
                \A i \in prts : ~(FirstOf(k) < i /\ i <= LastOf(k))

\* C21 witness: a completed run that skipped one district with no write at
\* all, and in another district attempted assemblies.json, which failed, and
\* then an assemblies-part.json
C21_Witness ==
    /\ pc = "done"
    /\ outcome = "completed"
    /\ \E k \in 1..Len(got.acs) :
         /\ got.acs[k].res = None
         /\ \A i \in FirstOf(k)..LastOf(k) : fs.log[i].op # "save"
    /\ \E k \in 1..Len(got.acs) :
         /\ IsList(got.acs[k].res)
         /\ ~fs.log[FirstOf(k) + 1].ok
         /\ \E i \in WritesOf("assemblies-part.json") :
              FirstOf(k) < i /\ i <= LastOf(k)

\* no two districts and no two assemblies of the run share a directory
UniqueDirs ==
    /\ \A k1, k2 \in 1..Len(got.acs) :
         ExpDistrictDir(k1) = ExpDistrictDir(k2) => k1 = k2
    /\ \A j1, j2 \in 1..Len(got.parts) :
         ExpAssemblyDir(got.parts[j1].d, got.parts[j1].a)
            = ExpAssemblyDir(got.parts[j2].d, got.parts[j2].a) => j1 = j2

\* C7 on v2.py alone, for runs in which no two directories coincide
C7_OutputTree_v2 == (impl = "v2" /\ CleanRun /\ UniqueDirs) => C7_OutputTree

====
